---- MODULE Spec2Model ----
(***************************************************************************)
(* Model of helper.py: convert_icao_logos_to_iata (the Localizer).         *)
(*                                                                         *)
(* A run scans a source folder for PNG files named by ICAO code, looks the *)
(* code up in a table built from airlines.json and copies the file to      *)
(* logos/{iata}.png unless that file already exists.  The file system and  *)
(* the metadata file are the inputs; the run is a single linear pass.      *)
(*                                                                         *)
(* Strings are sequences of one-character strings, so that lower(),        *)
(* endswith(), splitext(), isalnum() and len() are computed as Python      *)
(* computes them.                                                          *)
(***************************************************************************)
EXTENDS Integers, Sequences, FiniteSets, TLC

VARIABLES
    srcDirExists,      \* os.path.isdir(source_folder)
    srcFiles,          \* source folder: file name -> content
    destDirExists,     \* the folder "logos" exists
    dest,              \* folder "logos": file name -> content
    metaFile,          \* airlines.json: missing, undecodable, or its JSON value
    pc,                \* position of the run: start, load, list, loop, done
    run,               \* 1 = first invocation, 2 = second invocation
    outcome,           \* how the run ended, "" while it is running
    out,               \* messages printed by the run, in order
    icao_to_iata_map,  \* the lookup table (helper.py:33)
    files_to_process,  \* helper.py:54
    i,                 \* number of loop iterations completed
    copied_count,
    skipped_existing_count,
    skipped_unmapped_count,
    skipped_invalid_iata_count,
    dest0,             \* history: dest when the current run started
    destDir0,          \* history: destDirExists when the current run started
    first              \* history: tallies and end state of the first run

vars == <<srcDirExists, srcFiles, destDirExists, dest, metaFile, pc, run,
          outcome, out, icao_to_iata_map, files_to_process, i, copied_count,
          skipped_existing_count, skipped_unmapped_count,
          skipped_invalid_iata_count, dest0, destDir0, first>>

----------------------------------------------------------------------------
(* Bounds of the model *)

\* longest metadata array enumerated
MaxRecords == 2

----------------------------------------------------------------------------
(* Characters and Python's string methods *)

UpperLetters == {"A", "B", "D", "L", "N", "P", "G"}
LowerLetters == {"a", "p", "n", "g", "t", "x", "o", "e", "s"}
Digits == {"1"}

\* str.lower() on one character
LowerChar(c) ==
    CASE c = "A" -> "a" [] c = "B" -> "b" [] c = "D" -> "d" [] c = "L" -> "l"
      [] c = "N" -> "n" [] c = "P" -> "p" [] c = "G" -> "g"
      [] OTHER -> c

\* f.lower()
Lower(s) == [k \in 1..Len(s) |-> LowerChar(s[k])]

\* s.endswith(suffix)
EndsWith(s, suffix) ==
    /\ Len(s) >= Len(suffix)
    /\ SubSeq(s, Len(s) - Len(suffix) + 1, Len(s)) = suffix

DotPng == <<".", "p", "n", "g">>

\* the filter of the list comprehension at helper.py:54
IsPngName(f) == EndsWith(Lower(f), DotPng)

\* os.path.splitext(filename)[0]: split at the last dot, unless only dots
\* precede it (a leading dot does not start an extension)
SplitExtStem(f) ==
    LET dots == {k \in 1..Len(f) : f[k] = "."}
        last == IF dots = {} THEN 0
                ELSE CHOOSE k \in dots : \A m \in dots : m <= k
    IN  IF last = 0 THEN f
        ELSE IF \E m \in 1..(last - 1) : f[m] # "." THEN SubSeq(f, 1, last - 1)
        ELSE f

\* one character c satisfies c.isalnum()
IsAlnumChar(c) == c \in UpperLetters \cup LowerLetters \cup Digits

\* str.isalnum(): non-empty and every character alphanumeric
IsAlnum(s) == Len(s) > 0 /\ \A k \in 1..Len(s) : IsAlnumChar(s[k])

\* faulty variant of IsValidIata: the length test is dropped
IsValidIataNoLen(code) == IsAlnum(code)

\* faulty variant of IsValidIata: the isalnum test is dropped
IsValidIataNoAlnum(code) == Len(code) = 2

\* the validation at helper.py:80
IsValidIata(code) == IsAlnum(code) /\ Len(code) = 2

\* f"{iata_code}.png" joined to dest_folder (helper.py:82); the name inside
\* the destination folder
DestName(code) == code \o DotPng

----------------------------------------------------------------------------
(* JSON values of airlines.json *)

\* a field of a record: absent (get() returns None), a string, or a number
Absent == [t |-> "none", s |-> <<>>]
Str(s) == [t |-> "str", s |-> s]
Number(digits) == [t |-> "num", s |-> digits]

\* Python truthiness of what airline.get(...) returns (helper.py:36)
Truthy(v) ==
    \/ v.t = "str" /\ v.s # <<>>
    \/ v.t = "num" /\ v.s # <<"0">>

\* what iterating the loaded value yields: record objects, or (for a JSON
\* object at the top level) its keys, or array items that are not objects
Obj(icao, iata) == [kind |-> "obj", icao |-> icao, iata |-> iata]
NonObj == [kind |-> "num", icao |-> Absent, iata |-> Absent]
KeyStr == [kind |-> "str", icao |-> Absent, iata |-> Absent]

AAL == <<"A", "A", "L">>
DAL == <<"D", "A", "L">>
AA == <<"A", "A">>
DL == <<"D", "L">>

\* the elements the metadata arrays are drawn from
Elements ==
    { Obj(Str(AAL), Str(AA)),
      Obj(Str(AAL), Str(DL)),
      Obj(Str(DAL), Str(AA)),
      Obj(Str(AAL), Str(<<"\\", "N">>)),
      Obj(Str(DAL), Str(<<"A">>)),
      Obj(Str(DAL), Str(<<"A", "1", "B">>)),
      Obj(Str(DAL), Str(<<>>)),
      Obj(Absent, Str(DL)),
      Obj(Str(<<>>), Str(DL)),
      Obj(Str(DAL), Number(<<"1", "2">>)),
      NonObj }

SeqsUpTo(S, n) == UNION {[1..k -> S] : k \in 0..n}

Meta(state, top, elems) == [state |-> state, top |-> top, elems |-> elems]

\* the states of the file airlines.json
MetaFiles ==
    { Meta("missing", "", <<>>),
      Meta("badutf8", "", <<>>),
      Meta("badjson", "", <<>>),
      Meta("json", "null", <<>>),
      Meta("json", "object", <<>>),
      Meta("json", "object", <<KeyStr>>) }
    \cup {Meta("json", "array", a) : a \in SeqsUpTo(Elements, MaxRecords)}

----------------------------------------------------------------------------
(* The lookup table *)

EmptyMap == [k \in {} |-> Absent]

\* faulty variant of Insert: an existing key keeps its first value
InsertKeepFirst(map, k, v) ==
    [x \in DOMAIN map \cup {k} |-> IF x \in DOMAIN map THEN map[x] ELSE v]

\* dict insertion: a later insertion of the same key overwrites
Insert(map, k, v) == [x \in DOMAIN map \cup {k} |-> IF x = k THEN v ELSE map[x]]

\* dict.get(key): None when the key is missing
Lookup(map, k) == IF k \in DOMAIN map THEN map[k] ELSE Absent

\* the dict comprehension of helper.py:33-37, element by element; exc is the
\* exception it raises ("" when none)
RECURSIVE Comprehension(_, _)
Comprehension(elems, acc) ==
    IF elems = <<>> THEN [exc |-> "", map |-> acc]
    ELSE LET airline == Head(elems) IN
         IF airline.kind # "obj"
         THEN [exc |-> "AttributeError", map |-> EmptyMap]
         ELSE IF Truthy(airline.icao) /\ Truthy(airline.iata)
         THEN Comprehension(Tail(elems), Insert(acc, airline.icao, airline.iata))
         ELSE Comprehension(Tail(elems), acc)

\* helper.py:28-45: open, json.load and the comprehension
LoadMetadata(file) ==
    CASE file.state = "missing" -> [exc |-> "FileNotFoundError", map |-> EmptyMap]
      [] file.state = "badutf8" -> [exc |-> "UnicodeDecodeError", map |-> EmptyMap]
      [] file.state = "badjson" -> [exc |-> "JSONDecodeError", map |-> EmptyMap]
      [] file.top = "null" -> [exc |-> "TypeError", map |-> EmptyMap]
      [] OTHER -> Comprehension(file.elems, EmptyMap)

----------------------------------------------------------------------------
(* The file system *)

AALpng == <<"A", "A", "L", ".", "p", "n", "g">>
DALPNG == <<"D", "A", "L", ".", "P", "N", "G">>
HiddenPng == <<".", "p", "n", "g">>
NotesTxt == <<"n", "o", "t", "e", "s", ".", "t", "x", "t">>

\* the files a source folder is drawn from, each with its own content
SourceUniverse ==
    [f \in {AALpng, DALPNG, HiddenPng, NotesTxt} |->
        CASE f = AALpng -> "bytes-of-AAL" [] f = DALPNG -> "bytes-of-DAL"
          [] f = HiddenPng -> "bytes-of-hidden" [] OTHER -> "text-notes"]

SourceDirs == {[f \in S |-> SourceUniverse[f]] : S \in SUBSET DOMAIN SourceUniverse}

EmptyDir == [f \in {} |-> ""]

\* the destination folder before the first run: absent, empty, or holding one logo
DestDirs ==
    { EmptyDir,
      [f \in {DestName(AA)} |-> "old-AA-logo"],
      [f \in {DestName(DL)} |-> "old-DL-logo"] }

\* faulty variant of PathExists: the existence test always answers "absent"
PathExistsNever(dir, name) == FALSE

\* os.path.exists(dest_filepath), helper.py:85
PathExists(dir, name) == name \in DOMAIN dir

\* faulty variant of Copy: the destination file is created empty
CopyEmpty(dir, name, content) ==
    [f \in DOMAIN dir \cup {name} |-> IF f = name THEN "" ELSE dir[f]]

\* shutil.copy(source_filepath, dest_filepath), helper.py:88
Copy(dir, name, content) ==
    [f \in DOMAIN dir \cup {name} |-> IF f = name THEN content ELSE dir[f]]

\* all orders os.listdir may return the matching files in
Orders(S) == {o \in [1..Cardinality(S) -> S] : \A a, b \in 1..Cardinality(S) : o[a] = o[b] => a = b}

\* faulty variant of PngFiles: the extension filter is dropped
PngFilesNoFilter(dir) == DOMAIN dir

\* the names kept by the comprehension at helper.py:54
PngFiles(dir) == {f \in DOMAIN dir : IsPngName(f)}

----------------------------------------------------------------------------
(* Messages printed by the run *)

MsgSrcMissing == "Error: Source directory not found at 'source_folder'"
MsgSource == "Source: 'source_folder'"
MsgDestination == "Destination: 'logos'"
MsgMapCreated == "Successfully created ICAO to IATA map from 'airlines.json'."
MsgMetaNotFound == "Error: The file 'airlines.json' was not found."
MsgMetaNotJson == "Error: The file 'airlines.json' is not a valid JSON file."
MsgNoPng == "No PNG files found in the source directory."
MsgProcessing == "Processing total_files PNG files..."
MsgProgress == "Progress: [bar] i+1/total_files (percent%)"
MsgReport == "Conversion Report"

----------------------------------------------------------------------------
(* The state before the first run *)

NoTallies == [copied |-> 0, existing |-> 0, unmapped |-> 0, invalid |-> 0,
              outcome |-> "", dest |-> EmptyDir]

Init ==
    /\ srcDirExists \in BOOLEAN
    /\ srcFiles \in (IF srcDirExists THEN SourceDirs ELSE {EmptyDir})
    /\ destDirExists \in BOOLEAN
    /\ dest \in (IF destDirExists THEN DestDirs ELSE {EmptyDir})
    /\ metaFile \in MetaFiles
    /\ pc = "start"
    /\ run = 1
    /\ outcome = ""
    /\ out = <<>>
    /\ icao_to_iata_map = EmptyMap
    /\ files_to_process = <<>>
    /\ i = 0
    /\ copied_count = 0
    /\ skipped_existing_count = 0
    /\ skipped_unmapped_count = 0
    /\ skipped_invalid_iata_count = 0
    /\ dest0 = dest
    /\ destDir0 = destDirExists
    /\ first = NoTallies

inputs == <<srcDirExists, srcFiles, metaFile>>
history == <<dest0, destDir0, first, run>>
counters == <<copied_count, skipped_existing_count, skipped_unmapped_count,
              skipped_invalid_iata_count>>
locals == <<icao_to_iata_map, files_to_process, i>>

\* the run ends: return, or an exception leaving the function
End(how, msgs) ==
    /\ pc' = "done"
    /\ outcome' = how
    /\ out' = out \o msgs

----------------------------------------------------------------------------
(* Step 1, helper.py:18-25 *)

\* faulty variant of SourceMissing: the destination folder is created before the test
SourceMissingAfterMakedirs ==
    /\ pc = "start"
    /\ ~srcDirExists
    /\ End("fatal_src", <<MsgSrcMissing>>)
    /\ destDirExists' = TRUE
    /\ UNCHANGED <<inputs, history, counters, locals, dest>>

\* helper.py:19-21
SourceMissing ==
    /\ pc = "start"
    /\ ~srcDirExists
    /\ End("fatal_src", <<MsgSrcMissing>>)
    /\ UNCHANGED <<inputs, history, counters, locals, dest, destDirExists>>

\* helper.py:23-25: os.makedirs(dest_folder, exist_ok=True)
MakeDest ==
    /\ pc = "start"
    /\ srcDirExists
    /\ destDirExists' = TRUE
    /\ out' = out \o <<MsgSource, MsgDestination>>
    /\ pc' = "load"
    /\ UNCHANGED <<inputs, history, counters, locals, dest, outcome>>

----------------------------------------------------------------------------
(* Step 2, helper.py:27-45 *)

\* helper.py:40-42
MetaNotFound ==
    /\ pc = "load"
    /\ LoadMetadata(metaFile).exc = "FileNotFoundError"
    /\ End("fatal_nofile", <<MsgMetaNotFound>>)
    /\ UNCHANGED <<inputs, history, counters, locals, dest, destDirExists>>

\* helper.py:43-45
MetaNotJson ==
    /\ pc = "load"
    /\ LoadMetadata(metaFile).exc = "JSONDecodeError"
    /\ End("fatal_json", <<MsgMetaNotJson>>)
    /\ UNCHANGED <<inputs, history, counters, locals, dest, destDirExists>>

\* helper.py:28-37: an exception no except clause names leaves the function
MetaUncaught ==
    /\ pc = "load"
    /\ LoadMetadata(metaFile).exc \in {"UnicodeDecodeError", "TypeError", "AttributeError"}
    /\ End("exception", <<>>)
    /\ UNCHANGED <<inputs, history, counters, locals, dest, destDirExists>>

\* helper.py:28-38 and the counters of helper.py:48-51
MetaLoaded ==
    /\ pc = "load"
    /\ LoadMetadata(metaFile).exc = ""
    /\ icao_to_iata_map' = LoadMetadata(metaFile).map
    /\ out' = Append(out, MsgMapCreated)
    /\ copied_count' = 0
    /\ skipped_existing_count' = 0
    /\ skipped_unmapped_count' = 0
    /\ skipped_invalid_iata_count' = 0
    /\ pc' = "list"
    /\ UNCHANGED <<inputs, history, files_to_process, i, dest, destDirExists, outcome>>

----------------------------------------------------------------------------
(* Step 3, helper.py:53-61 *)

\* helper.py:54-59
NoPngFiles ==
    /\ pc = "list"
    /\ PngFiles(srcFiles) = {}
    /\ End("nofiles", <<MsgNoPng>>)
    /\ UNCHANGED <<inputs, history, counters, locals, dest, destDirExists>>

\* helper.py:54-61: os.listdir returns the names in any order
StartLoop ==
    /\ pc = "list"
    /\ PngFiles(srcFiles) # {}
    /\ \E order \in Orders(PngFiles(srcFiles)) : files_to_process' = order
    /\ i' = 0
    /\ out' = Append(out, MsgProcessing)
    /\ pc' = "loop"
    /\ UNCHANGED <<inputs, history, counters, icao_to_iata_map, dest, destDirExists, outcome>>

----------------------------------------------------------------------------
(* The loop, helper.py:63-97: one action per way an iteration ends *)

\* helper.py:63
filename == files_to_process[i + 1]

\* helper.py:65
icao_code == SplitExtStem(filename)

\* helper.py:76
iata_code == Lookup(icao_to_iata_map, Str(icao_code))

\* helper.py:82
dest_filepath == DestName(iata_code.s)

InLoop == pc = "loop" /\ i < Len(files_to_process)

\* helper.py:63-73: the iteration is entered and the progress line printed
Iterate ==
    /\ i' = i + 1
    /\ out' = Append(out, MsgProgress)
    /\ UNCHANGED <<inputs, history, icao_to_iata_map, files_to_process, destDirExists,
                   pc, outcome>>

\* helper.py:95-97
SkipUnmapped ==
    /\ InLoop
    /\ ~Truthy(iata_code)
    /\ skipped_unmapped_count' = skipped_unmapped_count + 1
    /\ Iterate
    /\ UNCHANGED <<dest, copied_count, skipped_existing_count, skipped_invalid_iata_count>>

\* helper.py:80: a value that is not a string has no isalnum(); the
\* AttributeError leaves the function
ValidateRaises ==
    /\ InLoop
    /\ Truthy(iata_code)
    /\ iata_code.t # "str"
    /\ End("exception", <<MsgProgress>>)
    /\ UNCHANGED <<inputs, history, counters, locals, dest, destDirExists>>

\* faulty variant of SkipInvalid: the counter is not incremented
SkipInvalidUncounted ==
    /\ InLoop
    /\ Truthy(iata_code)
    /\ iata_code.t = "str"
    /\ ~IsValidIata(iata_code.s)
    /\ Iterate
    /\ UNCHANGED <<dest, counters>>

\* helper.py:92-94
SkipInvalid ==
    /\ InLoop
    /\ Truthy(iata_code)
    /\ iata_code.t = "str"
    /\ ~IsValidIata(iata_code.s)
    /\ skipped_invalid_iata_count' = skipped_invalid_iata_count + 1
    /\ Iterate
    /\ UNCHANGED <<dest, copied_count, skipped_existing_count, skipped_unmapped_count>>

\* helper.py:85, 90-91
SkipExisting ==
    /\ InLoop
    /\ Truthy(iata_code)
    /\ iata_code.t = "str"
    /\ IsValidIata(iata_code.s)
    /\ PathExists(dest, dest_filepath)
    /\ skipped_existing_count' = skipped_existing_count + 1
    /\ Iterate
    /\ UNCHANGED <<dest, copied_count, skipped_unmapped_count, skipped_invalid_iata_count>>

\* faulty variant of CopyFile: the copy is made without testing for the destination
CopyFileUnguarded ==
    /\ InLoop
    /\ Truthy(iata_code)
    /\ iata_code.t = "str"
    /\ IsValidIata(iata_code.s)
    /\ dest' = Copy(dest, dest_filepath, srcFiles[filename])
    /\ copied_count' = copied_count + 1
    /\ Iterate
    /\ UNCHANGED <<skipped_existing_count, skipped_unmapped_count, skipped_invalid_iata_count>>

\* helper.py:85-89
CopyFile ==
    /\ InLoop
    /\ Truthy(iata_code)
    /\ iata_code.t = "str"
    /\ IsValidIata(iata_code.s)
    /\ ~PathExists(dest, dest_filepath)
    /\ dest' = Copy(dest, dest_filepath, srcFiles[filename])
    /\ copied_count' = copied_count + 1
    /\ Iterate
    /\ UNCHANGED <<skipped_existing_count, skipped_unmapped_count, skipped_invalid_iata_count>>

\* helper.py:99-110: the loop is exhausted and the tallies are printed
Report ==
    /\ pc = "loop"
    /\ i = Len(files_to_process)
    /\ End("report", <<MsgReport>>)
    /\ UNCHANGED <<inputs, history, counters, locals, dest, destDirExists>>

----------------------------------------------------------------------------
(* helper.py:113-114: the script is invoked again on what the first run left *)

Rerun ==
    /\ pc = "done"
    /\ run = 1
    /\ run' = 2
    /\ first' = [copied |-> copied_count, existing |-> skipped_existing_count,
                 unmapped |-> skipped_unmapped_count,
                 invalid |-> skipped_invalid_iata_count,
                 outcome |-> outcome, dest |-> dest]
    /\ dest0' = dest
    /\ destDir0' = destDirExists
    /\ pc' = "start"
    /\ outcome' = ""
    /\ out' = <<>>
    /\ icao_to_iata_map' = EmptyMap
    /\ files_to_process' = <<>>
    /\ i' = 0
    /\ copied_count' = 0
    /\ skipped_existing_count' = 0
    /\ skipped_unmapped_count' = 0
    /\ skipped_invalid_iata_count' = 0
    /\ UNCHANGED <<inputs, dest, destDirExists>>

Next ==
    \/ SourceMissing
    \/ MakeDest
    \/ MetaNotFound
    \/ MetaNotJson
    \/ MetaUncaught
    \/ MetaLoaded
    \/ NoPngFiles
    \/ StartLoop
    \/ SkipUnmapped
    \/ ValidateRaises
    \/ SkipInvalid
    \/ SkipExisting
    \/ CopyFile
    \/ Report
    \/ Rerun

Spec == Init /\ [][Next]_vars

----------------------------------------------------------------------------
(* Vocabulary of the properties *)

Range(q) == {q[k] : k \in 1..Len(q)}

\* the files of the destination folder the current run created or changed
Written == {f \in DOMAIN dest : f \notin DOMAIN dest0 \/ dest[f] # dest0[f]}

Tally == copied_count + skipped_existing_count + skipped_unmapped_count
         + skipped_invalid_iata_count

\* the run was stopped by one of the three fatal preconditions
Fatal == {"fatal_src", "fatal_nofile", "fatal_json"}

FatalMsg(how) ==
    CASE how = "fatal_src" -> MsgSrcMissing
      [] how = "fatal_nofile" -> MsgMetaNotFound
      [] how = "fatal_json" -> MsgMetaNotJson

\* the table has been built in the current run
TableBuilt == MsgMapCreated \in Range(out)

----------------------------------------------------------------------------
(* C1 *)

\* C1: a file of the destination folder, once it exists (before the run or
\* created earlier in it), keeps its content in every later step.
C1_NeverOverwrites ==
    [][\A f \in DOMAIN dest : f \in DOMAIN dest' /\ dest'[f] = dest[f]]_vars

\* a first run into an empty folder met a file it had itself created
C1_Witness ==
    /\ run = 1
    /\ outcome = "report"
    /\ dest0 = EmptyDir
    /\ copied_count = 1
    /\ skipped_existing_count = 1

----------------------------------------------------------------------------
(* C2 *)

\* C2: every file the run has written into the destination folder is named
\* by two alphanumeric characters followed by ".png".
C2_OnlyIataNames ==
    \A f \in Written :
        /\ Len(f) = 2 + Len(DotPng)
        /\ SubSeq(f, 3, Len(f)) = DotPng
        /\ IsAlnumChar(f[1])
        /\ IsAlnumChar(f[2])

\* a run that copied a file while the table also held an invalid code
C2_Witness ==
    /\ outcome = "report"
    /\ copied_count > 0
    /\ skipped_invalid_iata_count > 0

----------------------------------------------------------------------------
(* C3 *)

\* each fatal case ends with its own message and with none of the others'
OwnFatalMessage ==
    /\ out # <<>>
    /\ out[Len(out)] = FatalMsg(outcome)
    /\ \A other \in Fatal \ {outcome} :
          FatalMsg(other) # FatalMsg(outcome) /\ FatalMsg(other) \notin Range(out)

\* C3 as stated: a run stopped by a fatal precondition has copied nothing and
\* has changed nothing at the destination, the folder itself included, and
\* has printed the message of its case.
C3_Original ==
    outcome \in Fatal =>
        /\ copied_count = 0
        /\ dest = dest0
        /\ destDirExists = destDir0
        /\ OwnFatalMessage

\* C3 as amended: a run stopped by a fatal precondition has copied nothing and
\* has created or changed no file of the destination; the destination folder
\* itself is untouched when the source folder is missing, and exists
\* (created if it was absent) when the metadata file is missing or is not
\* JSON; each of the three cases prints its own message.
C3_FatalBeforeFileWork ==
    outcome \in Fatal =>
        /\ copied_count = 0
        /\ dest = dest0
        /\ outcome = "fatal_src" => destDirExists = destDir0
        /\ outcome # "fatal_src" => destDirExists
        /\ OwnFatalMessage

\* the metadata file is not JSON and the run has created the missing folder
C3_Witness ==
    /\ outcome = "fatal_json"
    /\ ~destDir0
    /\ destDirExists

----------------------------------------------------------------------------
(* C4 *)

\* the loaded value is not an array of objects with string codes
IllShaped(file) ==
    /\ file.state = "json"
    /\ \/ file.top # "array"
       \/ \E k \in 1..Len(file.elems) :
             \/ file.elems[k].kind # "obj"
             \/ file.elems[k].icao.t \notin {"none", "str"}
             \/ file.elems[k].iata.t \notin {"none", "str"}

\* C4: with metadata that is not of the expected shape the run stops with
\* the diagnostic of the metadata step, no exception leaves the function,
\* the files are never listed or processed and nothing is copied.
C4_IllShapedAborts ==
    IllShaped(metaFile) =>
        /\ pc \notin {"list", "loop"}
        /\ outcome \notin {"exception", "report", "nofiles"}
        /\ pc = "done" => outcome \in Fatal
        /\ copied_count = 0

----------------------------------------------------------------------------
(* C5 *)

\* a record that enters the table (both codes present and non-empty)
Enters(rec) == rec.kind = "obj" /\ Truthy(rec.icao) /\ Truthy(rec.iata)

\* the records of the metadata that pair a valid IATA code with an ICAO code
ValidPairs ==
    {rec \in Range(metaFile.elems) :
        /\ rec.kind = "obj"
        /\ rec.icao.t = "str" /\ rec.icao.s # <<>>
        /\ rec.iata.t = "str"
        /\ Len(rec.iata.s) = 2 /\ IsAlnum(rec.iata.s)}

\* C5 as stated: after a completed run, for every record with a valid IATA
\* code I and an ICAO code C whose file C.png is in the source folder, the
\* destination holds I.png with the content of C.png.
C5_Original ==
    outcome = "report" =>
        \A rec \in ValidPairs :
            LET from == rec.icao.s \o DotPng
                to == rec.iata.s \o DotPng
            IN  from \in DOMAIN srcFiles =>
                    to \in DOMAIN dest /\ dest[to] = srcFiles[from]

\* the latest record of the metadata with ICAO code c that enters the table
LatestFor(c) ==
    LET ks == {k \in 1..Len(metaFile.elems) :
                  Enters(metaFile.elems[k]) /\ metaFile.elems[k].icao = Str(c)}
    IN  metaFile.elems[CHOOSE k \in ks : \A m \in ks : m <= k]

\* the candidates enumerated before position n whose code the latest record
\* maps to the IATA code v
EarlierTo(v, n) ==
    {m \in 1..(n - 1) :
        \E r \in ValidPairs :
            /\ r.icao.s = SplitExtStem(files_to_process[m])
            /\ LatestFor(r.icao.s).iata = v}

\* C5 as amended: after a completed run, for every record with a valid IATA
\* code I and an ICAO code C whose file C.png is in the source folder, if
\* that record is the latest one for C among those with both codes non-empty
\* then the destination holds I.png; and I.png has the content of C.png if
\* moreover I.png did not exist before the run and no candidate enumerated
\* before C.png is mapped to I.
C5_RoundTrip ==
    outcome = "report" =>
        \A rec \in ValidPairs :
            LET from == rec.icao.s \o DotPng
                to == rec.iata.s \o DotPng
            IN  (from \in DOMAIN srcFiles /\ LatestFor(rec.icao.s).iata = rec.iata) =>
                    /\ to \in DOMAIN dest
                    /\ \A n \in 1..Len(files_to_process) :
                          ( /\ files_to_process[n] = from
                            /\ to \notin DOMAIN dest0
                            /\ EarlierTo(rec.iata, n) = {} )
                          => dest[to] = srcFiles[from]

\* AAL.png was copied to AA.png after another candidate had been processed
C5_Witness ==
    /\ outcome = "report"
    /\ Len(files_to_process) > 1
    /\ files_to_process[1] # AALpng
    /\ Obj(Str(AAL), Str(AA)) \in Range(metaFile.elems)
    /\ DestName(AA) \in DOMAIN dest
    /\ DestName(AA) \notin DOMAIN dest0
    /\ dest[DestName(AA)] = srcFiles[AALpng]

----------------------------------------------------------------------------
(* C6 *)

\* the source folder exists and holds no name ending in .png in any case
NoPngInSource ==
    /\ srcDirExists
    /\ \A f \in DOMAIN srcFiles : ~EndsWith(Lower(f), DotPng)

\* C6 as stated, for the runs no exception ends: with no PNG in the source
\* folder the run ends with the "no files" warning, whatever the metadata
\* file and the destination are, and copies nothing.
C6_Original ==
    (NoPngInSource /\ pc = "done" /\ outcome # "exception") =>
        /\ outcome = "nofiles"
        /\ MsgNoPng \in Range(out)
        /\ copied_count = 0
        /\ dest = dest0

\* C6 as amended: with no PNG in the source folder the run copies nothing and
\* never enters the loop; it ends with the "no files" warning exactly when
\* the lookup table was built, and otherwise has ended at the metadata step.
C6_NoFilesWarning ==
    NoPngInSource =>
        /\ pc # "loop"
        /\ copied_count = 0
        /\ dest = dest0
        /\ outcome # "report"
        /\ pc = "done" => (outcome = "nofiles" <=> TableBuilt)
        /\ outcome = "nofiles" => out[Len(out)] = MsgNoPng

\* the warning was given for a folder that holds only a file of another kind
C6_Witness ==
    /\ outcome = "nofiles"
    /\ DOMAIN srcFiles = {NotesTxt}

----------------------------------------------------------------------------
(* C7 *)

\* the validation rule as the specification words it
AcceptedCode(code) ==
    /\ code # <<>>
    /\ \A k \in 1..Len(code) : IsAlnumChar(code[k])
    /\ Len(code) = 2

\* the iteration counts the candidate as "invalid IATA" and copies nothing
CountedInvalid ==
    /\ skipped_invalid_iata_count' = skipped_invalid_iata_count + 1
    /\ copied_count' = copied_count
    /\ skipped_existing_count' = skipped_existing_count
    /\ skipped_unmapped_count' = skipped_unmapped_count
    /\ dest' = dest

----------------------------------------------------------------------------
(* C8 *)

\* the positions of the records with ICAO value c in which both codes are
\* present and non-empty
PositionsOf(c) ==
    {k \in 1..Len(metaFile.elems) :
        /\ metaFile.elems[k].icao = c
        /\ metaFile.elems[k].icao.t # "none" /\ metaFile.elems[k].icao.s # <<>>
        /\ metaFile.elems[k].iata.t # "none" /\ metaFile.elems[k].iata.s # <<>>}

\* C8: once built, the table has an entry for exactly the ICAO codes of the
\* records in which both codes are present and non-empty, and maps each to
\* the IATA code of the latest such record; it stays so for the rest of the
\* run.
C8_LastWriteWins ==
    TableBuilt =>
        /\ DOMAIN icao_to_iata_map =
              {metaFile.elems[k].icao : k \in {m \in 1..Len(metaFile.elems) :
                                                  PositionsOf(metaFile.elems[m].icao) # {}}}
        /\ \A c \in DOMAIN icao_to_iata_map :
              \E k \in PositionsOf(c) :
                  /\ \A m \in PositionsOf(c) : m <= k
                  /\ icao_to_iata_map[c] = metaFile.elems[k].iata

\* AAL occurs twice with different IATA codes and the table holds the later
C8_Witness ==
    /\ TableBuilt
    /\ metaFile.elems = <<Obj(Str(AAL), Str(AA)), Obj(Str(AAL), Str(DL))>>
    /\ icao_to_iata_map[Str(AAL)] = Str(DL)

----------------------------------------------------------------------------
(* C9 *)

\* exactly one of the four counters goes up by one, the others stay
OneCounterIncremented ==
    \E c \in 1..4 :
        counters' = [counters EXCEPT ![c] = @ + 1]

\* C9: every completed iteration increments exactly one counter by one; the
\* counters sum to the number of candidates processed so far and, at the
\* report, to the number of PNG names in the source folder; the copied
\* counter is the number of files in the destination that were not there
\* when the run started.
C9_TallyConservation ==
    /\ [][i' = i + 1 => OneCounterIncremented]_vars
    /\ [](/\ Tally = i
          /\ outcome = "report" =>
                Tally = Cardinality({f \in DOMAIN srcFiles : EndsWith(Lower(f), DotPng)})
          /\ copied_count = Cardinality(DOMAIN dest \ DOMAIN dest0))

\* a report in which three different counters are one
C9_Witness ==
    /\ outcome = "report"
    /\ copied_count = 1
    /\ skipped_unmapped_count = 1
    /\ skipped_invalid_iata_count = 1

----------------------------------------------------------------------------
(* C10 *)

\* C10: when the first run ended without an exception, the second run on
\* the same inputs copies nothing, leaves the destination as the first run
\* left it and ends the way the first did; at its report the "already
\* existed" counter is the first run's copied plus already-existed, and the
\* unmapped and invalid counters are those of the first run.
C10_SecondRunIdempotent ==
    (run = 2 /\ first.outcome # "exception") =>
        /\ copied_count = 0
        /\ dest = first.dest
        /\ pc = "done" => outcome = first.outcome
        /\ outcome = "report" =>
              /\ skipped_existing_count = first.copied + first.existing
              /\ skipped_unmapped_count = first.unmapped
              /\ skipped_invalid_iata_count = first.invalid

\* the second run found every file the first run had copied
C10_Witness ==
    /\ run = 2
    /\ outcome = "report"
    /\ first.copied = 2
    /\ skipped_existing_count = 2
    /\ skipped_unmapped_count = 1

====
